---- MODULE Spec2Model ----
(***************************************************************************)
(* IrisKerasCallback.ipynb: a notebook that loads the Iris dataset, builds *)
(* and compiles a three-layer Sequential model and trains it with          *)
(* model.fit(batch_size=32, epochs=50) under two callbacks, TensorBoard    *)
(* (log_dir = ./logs/<timestamp>) and ModelCheckpoint (filepath =          *)
(* ./checkpoints/model{epoch:02d}.h5, save_freq='epoch'), then lists the   *)
(* two directories.                                                        *)
(*                                                                         *)
(* The cells are executed top to bottom; the training cell may be executed *)
(* again (the recorded listing shows five log directories).  fit is cut    *)
(* into its steps: one per batch, one per callback at the end of an epoch, *)
(* and its return.  A failure (an exception, an interrupt) may strike      *)
(* between any two steps of fit; the notebook catches nothing.             *)
(***************************************************************************)
EXTENDS Integers, Sequences, FiniteSets

VARIABLES
    pc,          \* the notebook's position: the cell to run next, or inside fit
    iris,        \* number of samples of the loaded dataset (0: not loaded)
    layers,      \* units of the layers added to the model so far
    compiled,    \* model.compile has run
    now,         \* the wall clock, in ticks
    run,         \* executions of the training cell so far
    callbacks,   \* the callbacks list of the current execution
    log_dir,     \* the TensorBoard callback's log_dir
    epoch,       \* fit's loop variable: epochs completed in this execution (0-based index of the current one)
    bi,          \* batches processed in the current epoch
    cb,          \* callbacks whose on_epoch_end has run for the current epoch
    batches,     \* index ranges <<start, end>> processed in the current epoch
    seen,        \* the progress bar's sample counter of the current epoch
    started,     \* 1-based numbers of the epochs begun in this execution, in order
    iterations,  \* training iterations (batches) of this execution
    ckptWrites,  \* checkpoint writes of this execution
    hist,        \* model.history: values recorded per metric in this execution
    history,     \* the notebook's variable history
    checkpoints, \* files of ./checkpoints
    logs,        \* contents of ./logs
    failedAt,    \* 1-based number of the epoch during which this execution failed (0: none)
    executions,  \* per execution of the training cell: the second its callbacks list was built in, and how it ended
    listing      \* output of the last !ls logs checkpoints

vars == <<pc, iris, layers, compiled, now, run, callbacks, log_dir, epoch, bi, cb,
          batches, seen, started, iterations, ckptWrites, hist, history,
          checkpoints, logs, failedAt, executions, listing>>

(* ------------------------------ bounds -------------------------------- *)

\* Executions of the training cell.
MaxRuns == 2
\* The clock runs from tick 0 to MaxTicks.
MaxTicks == 2
\* Clock ticks per second: the clock is finer than the log directory's name.
TicksPerSecond == 2
\* A failure strikes during one of the first MaxFailEpoch epochs, or during the
\* last epoch.
MaxFailEpoch == 1

(* ------------------------- program constants -------------------------- *)

NumSamples == 150
BatchSize == 32
Epochs == 50
n_output == 3
HiddenUnits == 10

(* ------------------------------ helpers ------------------------------- *)

Min(a, b) == IF a < b THEN a ELSE b

RECURSIVE Digits(_)
Digits(n) == IF n < 10 THEN <<n>> ELSE Append(Digits(n \div 10), n % 10)

\* Python's {:0wd} and strftime's zero-padded fields: at least w digits.
ZeroPad(n, w) ==
    LET d == Digits(n)
    IN  IF Len(d) >= w THEN d ELSE [i \in 1..(w - Len(d)) |-> 0] \o d

\* The second (counted from midnight of 2020-05-06) the clock shows at tick t.
\* dt.datetime.now(): the clock read at tick t.  The clock starts one second
\* before midnight of 2020-05-06, so that the bounded run crosses a minute,
\* an hour and a day.
ClockSecond(t) == ((86399 * TicksPerSecond) + t) \div TicksPerSecond

datetime_now(t) ==
    LET ticks == (86399 * TicksPerSecond) + t
        secs  == ClockSecond(t)
    IN  [year |-> 2020, month |-> 5, day |-> 6 + (secs \div 86400),
         hour |-> (secs % 86400) \div 3600,
         minute |-> (secs % 3600) \div 60,
         second |-> secs % 60,
         subsecond |-> ticks % TicksPerSecond]

\* Mutant: the format stops at the minute ("%Y-%m-%d-%H-%M").
strftime_no_seconds(d) ==
    <<ZeroPad(d.year, 4), ZeroPad(d.month, 2), ZeroPad(d.day, 2),
      ZeroPad(d.hour, 2), ZeroPad(d.minute, 2)>>

\* strftime("%Y-%m-%d-%H-%M-%S"): six zero-padded fields, nothing below the second.
strftime(d) ==
    <<ZeroPad(d.year, 4), ZeroPad(d.month, 2), ZeroPad(d.day, 2),
      ZeroPad(d.hour, 2), ZeroPad(d.minute, 2), ZeroPad(d.second, 2)>>

\* './logs/{}'.format(...)
LogDir(t) == <<"./logs/", strftime(datetime_now(t))>>

\* Mutant: the file is named after fit's 0-based epoch index.
CheckpointPath_epoch0(e) == <<"./checkpoints/model", ZeroPad(e, 2), ".h5">>

\* './checkpoints/model{epoch:02d}.h5' formatted by ModelCheckpoint with the
\* 1-based number of fit's 0-based epoch e.
CheckpointPath(e) == <<"./checkpoints/model", ZeroPad(e + 1, 2), ".h5">>

\* Mutant: save_freq counts batches instead of epochs.
save_freq_batch == "batch"

save_freq == "epoch"

\* Mutant: the two callbacks of the list in the other order.
CallbackList_swapped == <<"ModelCheckpoint", "TensorBoard", "History">>

\* The callbacks list of the training cell, in its order, followed by the
\* History callback fit appends (it fills the object fit returns).
CallbackList == <<"TensorBoard", "ModelCheckpoint", "History">>

\* Mutant: the short last batch is dropped (floor instead of ceiling).
make_batches_floor(n, size) ==
    LET num == n \div size
    IN  [i \in 1..num |-> <<(i - 1) * size, Min(n, i * size)>>]

\* fit's batching of n samples: ceil(n / size) index ranges, the last one short.
make_batches(n, size) ==
    LET num == (n + size - 1) \div size
    IN  [i \in 1..num |-> <<(i - 1) * size, Min(n, i * size)>>]

\* Mutant: the loop runs one epoch too many.
EpochRange_one_more == 0..Epochs

\* The epochs fit runs: range(epochs), 0-based.
EpochRange == 0..(Epochs - 1)

\* Mutant: a write does not replace the file another execution wrote.
WriteFile_keep(fs, path, r) == fs \cup {[path |-> path, run |-> r]}

\* model.save(filepath, overwrite=True): the file of that name is replaced.
WriteFile(fs, path, r) ==
    {f \in fs : f.path # path} \cup {[path |-> path, run |-> r]}

\* The TensorBoard writer of execution r has written n epoch records into dir.
WriteLog(ls, dir, r, n) ==
    {l \in ls : ~(l.dir = dir /\ l.run = r)} \cup {[dir |-> dir, run |-> r, epochs |-> n]}

NoHistory == [run |-> 0, loss |-> 0, sparse_categorical_accuracy |-> 0]

(* ------------------------------- state -------------------------------- *)

Init ==
    /\ pc = "import"
    /\ iris = 0
    /\ layers = <<>>
    /\ compiled = FALSE
    /\ now = 0
    /\ run = 0
    /\ callbacks = <<>>
    /\ log_dir = <<>>
    /\ epoch = 0
    /\ bi = 0
    /\ cb = 0
    /\ batches = <<>>
    /\ seen = 0
    /\ started = <<>>
    /\ iterations = 0
    /\ ckptWrites = 0
    /\ hist = 0
    /\ history = NoHistory
    /\ checkpoints = {}
    /\ logs = {}
    /\ failedAt = 0
    /\ executions = <<>>
    /\ listing = [taken |-> FALSE, checkpoints |-> {}, logs |-> {}]

fitVars == <<epoch, bi, cb, batches, seen, started, iterations, ckptWrites, hist>>

\* import cell
ImportCell ==
    /\ pc = "import"
    /\ pc' = "load"
    /\ UNCHANGED <<iris, layers, compiled, now, run, callbacks, log_dir, fitVars,
                   history, checkpoints, logs, failedAt, executions, listing>>

\* iris = load_iris()
LoadCell ==
    /\ pc = "load"
    /\ iris' = NumSamples
    /\ pc' = "build"
    /\ UNCHANGED <<layers, compiled, now, run, callbacks, log_dir, fitVars,
                   history, checkpoints, logs, failedAt, executions, listing>>

\* model = Sequential(); three model.add(Dense(...))
BuildLayers == <<HiddenUnits, HiddenUnits, n_output>>

BuildCell ==
    /\ pc = "build"
    /\ layers' = BuildLayers
    /\ pc' = "compile"
    /\ UNCHANGED <<iris, compiled, now, run, callbacks, log_dir, fitVars,
                   history, checkpoints, logs, failedAt, executions, listing>>

\* model.compile(...)
CompileCell ==
    /\ pc = "compile"
    /\ compiled' = TRUE
    /\ pc' = "train"
    /\ UNCHANGED <<iris, layers, now, run, callbacks, log_dir, fitVars,
                   history, checkpoints, logs, failedAt, executions, listing>>

\* Mutant: the training cell runs before model.compile.
TrainCellReady_early == {"compile", "train", "trained", "failed", "listed"}

\* The cells from which the training cell can be executed (again).
TrainCellReady == {"train", "trained", "failed", "listed"}

\* The training cell up to the call of fit: the callbacks list is built, the
\* TensorBoard callback's log_dir named after the clock.
TrainCell ==
    /\ pc \in TrainCellReady
    /\ run < MaxRuns
    /\ \E t \in now..MaxTicks :
          /\ now' = t
          /\ log_dir' = LogDir(t)
          /\ executions' = Append(executions, [builtAt |-> ClockSecond(t), outcome |-> "running"])
    /\ callbacks' = CallbackList
    /\ run' = run + 1
    /\ failedAt' = 0
    /\ pc' = "call_fit"
    /\ UNCHANGED <<iris, layers, compiled, fitVars, history, checkpoints, logs, listing>>

\* model.fit entered: the callbacks are set up (a fresh History, the TensorBoard
\* writer's directory) and the epoch loop starts at initial_epoch = 0.
FitBegin ==
    /\ pc = "call_fit"
    /\ epoch' = 0
    /\ bi' = 0
    /\ cb' = 0
    /\ batches' = <<>>
    /\ seen' = 0
    /\ started' = <<>>
    /\ iterations' = 0
    /\ ckptWrites' = 0
    /\ hist' = 0
    /\ logs' = WriteLog(logs, log_dir, run, 0)
    /\ pc' = "fit"
    /\ UNCHANGED <<iris, layers, compiled, now, run, callbacks, log_dir, history,
                   checkpoints, failedAt, executions, listing>>

\* Mutant: ModelCheckpoint writes at the end of every batch.
CheckpointOnBatchEnd_always == TRUE

\* ModelCheckpoint.on_batch_end: a write only when save_freq counts batches.
CheckpointOnBatchEnd == save_freq # "epoch"

\* One training iteration: the next batch of the current epoch.  The first
\* batch of an epoch begins the epoch (on_epoch_begin).
TrainBatch ==
    /\ pc = "fit"
    /\ epoch \in EpochRange
    /\ cb = 0
    /\ bi < Len(make_batches(iris, BatchSize))
    /\ LET b == make_batches(iris, BatchSize)[bi + 1]
       IN  /\ batches' = (IF bi = 0 THEN <<>> ELSE batches) \o <<b>>
           /\ seen' = (IF bi = 0 THEN 0 ELSE seen) + (b[2] - b[1])
    /\ started' = IF bi = 0 THEN Append(started, epoch + 1) ELSE started
    /\ bi' = bi + 1
    /\ iterations' = iterations + 1
    /\ IF CheckpointOnBatchEnd
         THEN /\ checkpoints' = WriteFile(checkpoints, CheckpointPath(epoch), run)
              /\ ckptWrites' = ckptWrites + 1
         ELSE UNCHANGED <<checkpoints, ckptWrites>>
    /\ UNCHANGED <<pc, iris, layers, compiled, now, run, callbacks, log_dir, epoch, cb,
                   hist, history, logs, failedAt, executions, listing>>

\* on_epoch_end of the next callback of the list, for the current epoch; after
\* the last callback the loop moves to the next epoch.
OnEpochEnd ==
    /\ pc = "fit"
    /\ epoch \in EpochRange
    /\ bi = Len(make_batches(iris, BatchSize))
    /\ cb < Len(callbacks)
    /\ LET c == callbacks[cb + 1]
       IN  /\ logs' = IF c = "TensorBoard"
                        THEN WriteLog(logs, log_dir, run, epoch + 1) ELSE logs
           /\ IF c = "ModelCheckpoint" /\ save_freq = "epoch"
                THEN /\ checkpoints' = WriteFile(checkpoints, CheckpointPath(epoch), run)
                     /\ ckptWrites' = ckptWrites + 1
                ELSE UNCHANGED <<checkpoints, ckptWrites>>
           /\ hist' = IF c = "History" THEN hist + 1 ELSE hist
    /\ IF cb + 1 = Len(callbacks)
         THEN /\ epoch' = epoch + 1
              /\ bi' = 0
              /\ cb' = 0
         ELSE /\ cb' = cb + 1
              /\ UNCHANGED <<epoch, bi>>
    /\ UNCHANGED <<pc, iris, layers, compiled, now, run, callbacks, log_dir, batches,
                   seen, started, iterations, history, failedAt, executions, listing>>

\* fit returns model.history; the cell assigns it to history.
FitReturn ==
    /\ pc = "fit"
    /\ epoch \notin EpochRange
    /\ history' = [run |-> run, loss |-> hist, sparse_categorical_accuracy |-> hist]
    /\ executions' = [executions EXCEPT ![run].outcome = "returned"]
    /\ pc' = "trained"
    /\ UNCHANGED <<iris, layers, compiled, now, run, callbacks, log_dir, fitVars,
                   checkpoints, logs, failedAt, listing>>

\* Mutant: the error is caught and training goes on.
Fail_swallowed ==
    /\ pc = "fit"
    /\ epoch \in EpochRange
    /\ (epoch + 1 <= MaxFailEpoch \/ epoch + 1 = Epochs)
    /\ failedAt = 0
    /\ failedAt' = epoch + 1
    /\ UNCHANGED <<pc, iris, layers, compiled, now, run, callbacks, log_dir, fitVars,
                   history, checkpoints, logs, executions, listing>>

\* An error raised inside fit, or an interrupt: nothing catches it, the cell
\* ends there.
Fail ==
    /\ pc = "fit"
    /\ epoch \in EpochRange
    /\ (epoch + 1 <= MaxFailEpoch \/ epoch + 1 = Epochs)
    /\ failedAt' = epoch + 1
    /\ executions' = [executions EXCEPT ![run].outcome = "raised"]
    /\ pc' = "failed"
    /\ UNCHANGED <<iris, layers, compiled, now, run, callbacks, log_dir, fitVars,
                   history, checkpoints, logs, listing>>

\* !ls logs checkpoints
ListCell ==
    /\ pc = "trained"
    /\ listing' = [taken |-> TRUE,
                   checkpoints |-> {f.path : f \in checkpoints},
                   logs |-> {l.dir : l \in logs}]
    /\ pc' = "listed"
    /\ UNCHANGED <<iris, layers, compiled, now, run, callbacks, log_dir, fitVars,
                   history, checkpoints, logs, failedAt, executions>>

Next ==
    \/ ImportCell
    \/ LoadCell
    \/ BuildCell
    \/ CompileCell
    \/ TrainCell
    \/ FitBegin
    \/ TrainBatch
    \/ OnEpochEnd
    \/ FitReturn
    \/ Fail
    \/ ListCell

Spec == Init /\ [][Next]_vars

\* fit keeps running until it returns or fails.
FitStep == FitBegin \/ TrainBatch \/ OnEpochEnd \/ FitReturn

LiveSpec == Spec /\ WF_vars(FitStep)

(* ------------------------- claims: vocabulary ------------------------- *)

\* model<k, two digits>.h5, written out digit by digit (k < 100).
ModelFile(k) == <<"./checkpoints/model", <<k \div 10, k % 10>>, ".h5">>

ModelFiles(a, b) == {ModelFile(k) : k \in a..b}

\* Names of the checkpoint files on disk, and of those execution r wrote.
FileNames == {f.path : f \in checkpoints}

FilesOf(r) == {f.path : f \in {g \in checkpoints : g.run = r}}

\* The log subdirectories on disk, and the content of one of them.
LogDirs == {l.dir : l \in logs}

Content(ls, d) == {l \in ls : l.dir = d}

\* Epoch records execution r has written into the current log_dir.
LogRecords(r) ==
    LET e == {l \in logs : l.dir = log_dir /\ l.run = r}
    IN  IF e = {} THEN 0 ELSE (CHOOSE l \in e : TRUE).epochs

\* A two-digit (four-digit) field read back as a number.
Num(d) == IF Len(d) = 4 THEN (d[1] * 1000) + (d[2] * 100) + (d[3] * 10) + d[4]
          ELSE (d[1] * 10) + d[2]

\* dir is ./logs/YYYY-MM-DD-HH-MM-SS.
WellFormedDir(dir) ==
    /\ Len(dir) = 2
    /\ dir[1] = "./logs/"
    /\ Len(dir[2]) = 6
    /\ Len(dir[2][1]) = 4
    /\ \A i \in 2..6 : Len(dir[2][i]) = 2
    /\ \A i \in 1..6 : \A j \in 1..Len(dir[2][i]) : dir[2][i][j] \in 0..9
    /\ Num(dir[2][1]) = 2020
    /\ Num(dir[2][2]) = 5
    /\ Num(dir[2][4]) < 24
    /\ Num(dir[2][5]) < 60
    /\ Num(dir[2][6]) < 60

\* The second a well-formed directory name stands for, from midnight of 2020-05-06.
DirSecond(dir) ==
    ((Num(dir[2][3]) - 6) * 86400) + (Num(dir[2][4]) * 3600)
        + (Num(dir[2][5]) * 60) + Num(dir[2][6])

AllReturned(rs) == \A r \in rs : executions[r].outcome = "returned"

DistinctSeconds ==
    \A r1 \in 1..run : \A r2 \in 1..run :
        r1 # r2 => executions[r1].builtAt # executions[r2].builtAt

(* ------------------------------- claims ------------------------------- *)

\* C1: when fit has returned, ./checkpoints holds exactly one file per epoch,
\* model01.h5 .. model50.h5 (numbering from 01), all of them written by this
\* execution, and this execution wrote no file of any other number.
C1_CheckpointPerEpoch ==
    pc \in {"trained", "listed"} =>
        /\ FileNames = ModelFiles(1, 50)
        /\ FilesOf(run) = ModelFiles(1, 50)
        /\ \A k \in 1..50 : Cardinality({f \in checkpoints : f.path = ModelFile(k)}) = 1
        /\ ModelFile(0) \notin FileNames
        /\ (pc = "listed" => listing.checkpoints = ModelFiles(1, 50))

C1_Witness ==
    /\ pc = "listed"
    /\ run = 1
    /\ Cardinality(listing.checkpoints) = 50
    /\ ModelFile(1) \in listing.checkpoints

C3_CheckpointOnlyAtEpochEnd ==
    /\ [](pc = "fit" => ckptWrites * 5 <= iterations)
    /\ [](pc = "trained" => ckptWrites > 0 /\ ckptWrites < iterations)
    /\ [][ckptWrites' > ckptWrites =>
             (IF iterations' # iterations THEN seen' ELSE seen) = 150]_vars

C3_Witness ==
    /\ pc = "trained"
    /\ ckptWrites = 50
    /\ iterations = 250

\* C4: without a failure fit runs the epochs 1, 2, .., 50 in this order, each
\* once, never begins an epoch 51, and eventually returns the history, which the
\* cell assigns.
C4_FiftyEpochsThenReturn ==
    /\ [](pc \in {"fit", "trained", "failed"} =>
             /\ Len(started) <= 50
             /\ \A i \in 1..Len(started) : started[i] = i)
    /\ [](pc = "trained" =>
             /\ Len(started) = 50
             /\ history.run = run
             /\ executions[run].outcome = "returned")
    /\ ((pc = "fit") ~> (pc = "failed" \/ (pc = "trained" /\ history.run = run)))

C4_Witness ==
    /\ pc = "trained"
    /\ Len(started) = 50
    /\ started[50] = 50
    /\ history.run = 1

\* C5 as stated: an execution's log directory is named after the second its
\* callbacks list was built in, it writes into no other directory, and the
\* directories earlier executions created are left unchanged.
C5_Original ==
    /\ [](run >= 1 =>
             /\ WellFormedDir(log_dir)
             /\ DirSecond(log_dir) = executions[run].builtAt)
    /\ [][\A l \in (logs' \ logs) \cup (logs \ logs') :
             l.dir = log_dir /\ l.run = run]_vars
    /\ [][\A r \in 1..(run - 1) :
             \A d \in {l.dir : l \in {x \in logs : x.run = r}} :
                 Content(logs', d) = Content(logs, d)]_vars

\* C5 (amended): an execution's log directory is ./logs/YYYY-MM-DD-HH-MM-SS of
\* the second its callbacks list was built in, it writes into no other
\* directory, and the directories created by earlier executions whose callbacks
\* list was built in another second are left unchanged.
C5_OwnTimestampedLogDir ==
    /\ [](run >= 1 =>
             /\ WellFormedDir(log_dir)
             /\ DirSecond(log_dir) = executions[run].builtAt)
    /\ [][\A l \in (logs' \ logs) \cup (logs \ logs') :
             l.dir = log_dir /\ l.run = run]_vars
    /\ [][\A r \in 1..(run - 1) :
             executions[r].builtAt # executions[run].builtAt =>
                 \A d \in {l.dir : l \in {x \in logs : x.run = r}} :
                     Content(logs', d) = Content(logs, d)]_vars

C5_Witness ==
    /\ pc = "fit"
    /\ run = 2
    /\ executions[1].builtAt # executions[2].builtAt
    /\ LogRecords(2) = 3
    /\ Cardinality(LogDirs) = 2
    /\ Content(logs, log_dir) = {[dir |-> log_dir, run |-> 2, epochs |-> 3]}

C7_Original ==
    /\ (pc = "fit" =>
          /\ LogRecords(run) \in
                 {Cardinality(checkpoints), Cardinality(checkpoints) + 1}
          /\ (cb = 0 =>
                 /\ LogRecords(run) = epoch
                 /\ Cardinality(checkpoints) = epoch))
    /\ (pc = "trained" =>
          /\ history.loss = 50
          /\ history.sparse_categorical_accuracy = 50)

\* C7 (amended): TensorBoard and ModelCheckpoint run once per epoch, in this
\* order, so that after epoch k the current execution has written k epoch
\* records and k checkpoint files, and the returned history holds 50 values
\* per metric.
C7_CallbacksOncePerEpochInOrder ==
    /\ (pc = "fit" =>
          /\ Cardinality(FilesOf(run)) = ckptWrites
          /\ LogRecords(run) \in {ckptWrites, ckptWrites + 1}
          /\ hist \in {ckptWrites - 1, ckptWrites}
          /\ hist <= LogRecords(run)
          /\ (cb = 0 =>
                 /\ LogRecords(run) = epoch
                 /\ ckptWrites = epoch
                 /\ hist = epoch))
    /\ (pc = "trained" =>
          /\ LogRecords(run) = 50
          /\ Cardinality(FilesOf(run)) = 50
          /\ history.loss = 50
          /\ history.sparse_categorical_accuracy = 50)

C7_Witness ==
    /\ pc = "fit"
    /\ run = 2
    /\ epoch = 3
    /\ cb = 0
    /\ bi = 0
    /\ LogRecords(2) = 3
    /\ Cardinality(FilesOf(2)) = 3
    /\ Cardinality(checkpoints) = 50

\* C8: the cells run in the order load, build, compile, fit, list: fit is
\* called only on a compiled model of three layers and a loaded dataset, the
\* listing is taken only after fit has returned, and checkpoint files and log
\* directories change only inside fit.
C8_CellOrder ==
    /\ [](pc \in {"call_fit", "fit", "trained", "failed", "listed"} =>
             /\ iris = 150
             /\ Len(layers) = 3
             /\ compiled)
    /\ [](compiled => Len(layers) = 3)
    /\ [](layers # <<>> => iris # 0)
    /\ [](listing.taken => history.run >= 1)
    /\ [][listing' # listing => pc = "trained" /\ history.run = run]_vars
    /\ [][checkpoints' # checkpoints \/ logs' # logs =>
             pc \in {"call_fit", "fit"} /\ pc' = "fit"]_vars

C8_Witness ==
    /\ pc = "listed"
    /\ listing.taken
    /\ run = 1
    /\ Cardinality(listing.logs) = 1

\* C9: an epoch is five iterations, four batches of 32 samples and one of 22,
\* every one of the 150 sample positions in exactly one batch, the sample
\* counter ends at 150, and a whole run is 250 iterations.
C9_FiveBatchesPerEpoch ==
    /\ (pc = "fit" /\ cb > 0 =>
          /\ Len(batches) = 5
          /\ [j \in 1..5 |-> batches[j][2] - batches[j][1]] = <<32, 32, 32, 32, 22>>
          /\ \A i \in 0..149 :
                Cardinality({j \in 1..5 : batches[j][1] <= i /\ i < batches[j][2]}) = 1
          /\ seen = 150)
    /\ (pc = "fit" => bi <= 5 /\ iterations = (epoch * 5) + bi)
    /\ (pc = "trained" => iterations = 250)

C9_Witness ==
    /\ pc = "fit"
    /\ epoch = 49
    /\ cb = 1
    /\ seen = 150
    /\ iterations = 250

====
